---- MODULE Spec2Model ----
(***************************************************************************)
(* Model of server/app.py: a Flask relay in front of a local Ollama        *)
(* backend.  Text that the code inspects character by character (names,    *)
(* addresses, generated replies) is a sequence of one-character strings;   *)
(* messages that the code only builds and tests for one fixed signature    *)
(* are sequences of fragments, one fragment per literal piece or           *)
(* interpolated value of the f-string that builds them.                    *)
(***************************************************************************)
EXTENDS Integers, Sequences, FiniteSets, TLC

VARIABLES backend, ollama_running, ollama_error, req

vars == <<backend, ollama_running, ollama_error, req>>

\* Number of requests the host framework handles concurrently.
NReq == 2

Req == 1..NReq

(***************************************************************************)
(* Python string operations used by the handlers.                          *)
(***************************************************************************)
UpperCase == <<"A","B","C","D","E","F","G","H","I","J","K","L","M",
               "N","O","P","Q","R","S","T","U","V","W","X","Y","Z">>

LowerCase == <<"a","b","c","d","e","f","g","h","i","j","k","l","m",
               "n","o","p","q","r","s","t","u","v","w","x","y","z">>

Whitespace == {" ", "\n", "\t"}

\* str.lower() on one character
LowerChar(c) ==
  IF \E i \in 1..26 : UpperCase[i] = c
  THEN LowerCase[CHOOSE i \in 1..26 : UpperCase[i] = c]
  ELSE c

\* str.upper() on one character
UpperChar(c) ==
  IF \E i \in 1..26 : LowerCase[i] = c
  THEN UpperCase[CHOOSE i \in 1..26 : LowerCase[i] = c]
  ELSE c

\* s.lower()
Lower(s) == [i \in 1..Len(s) |-> LowerChar(s[i])]

\* s.capitalize(): first character upper-cased, the rest lower-cased
Capitalize(s) ==
  [i \in 1..Len(s) |-> IF i = 1 THEN UpperChar(s[i]) ELSE LowerChar(s[i])]

\* s.startswith(p)
StartsWith(s, p) == Len(p) <= Len(s) /\ SubSeq(s, 1, Len(p)) = p

\* s.endswith(p), used to state where a reply ends
EndsWith(s, p) ==
  Len(p) <= Len(s) /\ SubSeq(s, Len(s) - Len(p) + 1, Len(s)) = p

\* p in s
Contains(s, p) ==
  \E i \in 1..(Len(s) - Len(p) + 1) : SubSeq(s, i, i + Len(p) - 1) = p

\* s.strip()
Strip(s) ==
  LET keep == {i \in 1..Len(s) : s[i] \notin Whitespace}
  IN  IF keep = {} THEN <<>>
      ELSE LET lo == CHOOSE i \in keep : \A j \in keep : i <= j
               hi == CHOOSE i \in keep : \A j \in keep : j <= i
           IN  SubSeq(s, lo, hi)

\* s.split(c)[0]: the text before the first c, all of s when c is not in it
SplitFirst(s, c) ==
  LET at == {i \in 1..Len(s) : s[i] = c}
  IN  IF at = {} THEN s
      ELSE SubSeq(s, 1, (CHOOSE i \in at : \A j \in at : i <= j) - 1)

\* dict.get(key, default) on a JSON object (a record)
Get(obj, key, default) == IF key \in DOMAIN obj THEN obj[key] ELSE default

(***************************************************************************)
(* Messages.  str(e) of an exception and every message built from it is a  *)
(* sequence of fragments.  The model-missing literal of line 66 is cut     *)
(* around the model identifier it quotes, so that "the message names the   *)
(* model" is a test on the message and not on the reader.                  *)
(***************************************************************************)
None == <<>>

\* "llama3.2:1b", the identifier check_ollama looks for, character by character
RequiredModel == <<"l","l","a","m","a","3",".","2",":","1","b">>

CannotConnectMsg ==
  <<"Cannot connect to Ollama. Please make sure Ollama is running">>

ModelMissingMsg ==
  <<"Llama 3.2 1B model is not available. Please run 'ollama pull ",
    "llama3.2:1b", "'">>

StatusCodeMsg(code) == <<"Ollama returned status code ", ToString(code)>>

CheckErrorMsg(text) == <<"Error checking Ollama: ">> \o text

NoContentMsg == <<"No email content provided">>

\* the signature the generation handlers look for in str(e)
ConnectionRefused == <<"Connection refused">>

(***************************************************************************)
(* The backend, as GET /api/tags sees it at one moment: it refuses the     *)
(* connection, the HTTP client fails in another way, or it answers with a  *)
(* status code and a body.  A body either fails to parse as JSON or is a   *)
(* JSON object; a model entry is a JSON object that may lack "name".       *)
(***************************************************************************)
Refused == [kind |-> "refused"]

Fault(text) == [kind |-> "fault", text |-> text]

Answer(status, body) == [kind |-> "http", status |-> status, body |-> body]

Unparsable(text) == [parsable |-> FALSE, text |-> text]

Json(obj) == [parsable |-> TRUE, json |-> obj]

Listing(names) ==
  Json([models |-> [i \in 1..Len(names) |-> [name |-> names[i]]]])

\* the list comprehension of line 61
llama3_models(models) ==
  SelectSeq(models,
            LAMBDA model : Contains(Lower(Get(model, "name", <<>>)), RequiredModel))

\* a slip the probe could make: the name is compared without .lower()
check_ollama_CaseSensitive(b) ==
  CASE b.kind = "refused" -> [running |-> FALSE, error |-> CannotConnectMsg]
    [] b.kind = "fault"   -> [running |-> FALSE, error |-> CheckErrorMsg(b.text)]
    [] OTHER ->
       IF b.status = 200
       THEN IF ~b.body.parsable
            THEN [running |-> FALSE, error |-> CheckErrorMsg(b.body.text)]
            ELSE IF SelectSeq(Get(b.body.json, "models", <<>>),
                              LAMBDA model :
                                Contains(Get(model, "name", <<>>), RequiredModel)) # <<>>
                 THEN [running |-> TRUE, error |-> None]
                 ELSE [running |-> FALSE, error |-> ModelMissingMsg]
       ELSE [running |-> FALSE, error |-> StatusCodeMsg(b.status)]

\* a slip the probe could make: any HTTP 200 listing counts as healthy
check_ollama_AnyListing(b) ==
  CASE b.kind = "refused" -> [running |-> FALSE, error |-> CannotConnectMsg]
    [] b.kind = "fault"   -> [running |-> FALSE, error |-> CheckErrorMsg(b.text)]
    [] OTHER ->
       IF b.status = 200
       THEN IF ~b.body.parsable
            THEN [running |-> FALSE, error |-> CheckErrorMsg(b.body.text)]
            ELSE [running |-> TRUE, error |-> None]
       ELSE [running |-> FALSE, error |-> StatusCodeMsg(b.status)]

\* check_ollama(): (is_running, error_message) for the backend as it is now
check_ollama(b) ==
  CASE b.kind = "refused" -> [running |-> FALSE, error |-> CannotConnectMsg]
    [] b.kind = "fault"   -> [running |-> FALSE, error |-> CheckErrorMsg(b.text)]
    [] OTHER ->
       IF b.status = 200
       THEN IF ~b.body.parsable
            THEN [running |-> FALSE, error |-> CheckErrorMsg(b.body.text)]
            ELSE IF llama3_models(Get(b.body.json, "models", <<>>)) # <<>>
                 THEN [running |-> TRUE, error |-> None]
                 ELSE [running |-> FALSE, error |-> ModelMissingMsg]
       ELSE [running |-> FALSE, error |-> StatusCodeMsg(b.status)]

(***************************************************************************)
(* generate_reply: names, greeting and post-processing (lines 131-191).    *)
(***************************************************************************)
Me == <<"M","e">>

\* 'user@example.com', the default of data.get('userEmail', ...) on line 134
DefaultUserEmail ==
  <<"u","s","e","r","@","e","x","a","m","p","l","e",".","c","o","m">>

Hi == <<"H","i">>

Hello == <<"H","e","l","l","o">>

Dear == <<"D","e","a","r">>

Regards == <<"r","e","g","a","r","d","s">>

Sincerely == <<"s","i","n","c","e","r","e","l","y">>

Best == <<"b","e","s","t">>

\* "\n\nBest regards,\n" of line 191
SignOffLead ==
  <<"\n","\n","B","e","s","t"," ","r","e","g","a","r","d","s",",","\n">>

\* a slip the name extraction could make: the text before `<` is not stripped
sender_name_of_Unstripped(recipient_name, sender) ==
  IF recipient_name # <<>> THEN recipient_name
  ELSE IF sender # <<>> /\ SplitFirst(sender, "<") # <<>>
       THEN SplitFirst(sender, "<")
       ELSE <<>>

\* lines 148-152: the name the greeting addresses
sender_name_of(recipient_name, sender) ==
  IF recipient_name # <<>> THEN recipient_name
  ELSE IF sender # <<>> /\ Strip(SplitFirst(sender, "<")) # <<>>
       THEN Strip(SplitFirst(sender, "<"))
       ELSE <<>>

\* lines 155-159: the name the sign-off carries
user_name_of(user_email) ==
  IF user_email # <<>> /\ Contains(user_email, <<"@">>)
     /\ SplitFirst(user_email, "@") # <<>>
  THEN Capitalize(SplitFirst(user_email, "@"))
  ELSE Me

\* line 161
greeting_of(sender_name) ==
  IF sender_name # <<>> THEN Hi \o <<" ">> \o sender_name \o <<",">>
  ELSE Hello \o <<",">>

\* line 186
has_greeting(reply) ==
  StartsWith(reply, Hi) \/ StartsWith(reply, Hello) \/ StartsWith(reply, Dear)

\* line 190
has_sign_off(reply) ==
  \/ Contains(Lower(reply), Regards)
  \/ Contains(Lower(reply), Sincerely)
  \/ Contains(Lower(reply), Best)

\* lines 183-187: the reply after the greeting rule
with_greeting(response, greeting) ==
  IF has_greeting(Strip(response)) THEN Strip(response)
  ELSE greeting \o <<"\n","\n">> \o Strip(response)

\* lines 189-191: the reply after the sign-off rule, which reads the reply
\* the greeting rule left
with_sign_off(reply, user_name) ==
  IF has_sign_off(reply) THEN reply ELSE reply \o SignOffLead \o user_name

\* lines 131-137: the request's fields with their defaults
reply_fields(obj) ==
  [sender         |-> Get(obj, "sender", <<>>),
   user_email     |-> Get(obj, "userEmail", DefaultUserEmail),
   recipient_name |-> Get(obj, "recipientName", <<>>)]

\* lines 147-191: the reply returned for a request object and a generated text
reply_of(obj, response) ==
  LET f == reply_fields(obj)
      sender_name == sender_name_of(f.recipient_name, f.sender)
      user_name == user_name_of(f.user_email)
  IN  with_sign_off(with_greeting(response, greeting_of(sender_name)), user_name)

(***************************************************************************)
(* Requests and responses.  request.json is null, a JSON object (a record  *)
(* of the keys present) or a number; a response is a status code and a     *)
(* JSON object.                                                            *)
(***************************************************************************)
Null == [kind |-> "null"]

Object(obj) == [kind |-> "object", obj |-> obj]

Number(n) == [kind |-> "number", n |-> n]

Response(status, body) == [status |-> status, body |-> body]

\* Python truth value of request.json
Truthy(data) ==
  CASE data.kind = "null"   -> FALSE
    [] data.kind = "object" -> DOMAIN data.obj # {}
    [] data.kind = "number" -> data.n # 0

\* a slip the validation could make: only `not data` is tested
validate_TruthyOnly(data, key) ==
  IF ~Truthy(data) THEN "reject"
  ELSE IF data.kind # "object" THEN "raise"
  ELSE "accept"

\* lines 84 and 128: `not data or key not in data`; `in` on a number raises
validate(data, key) ==
  IF ~Truthy(data) THEN "reject"
  ELSE IF data.kind # "object" THEN "raise"
  ELSE IF key \notin DOMAIN data.obj THEN "reject"
  ELSE "accept"

\* the registered error handlers (lines 35-47): jsonify(error=str(e)), code
not_found(e) == Response(404, [error |-> e])

forbidden(e) == Response(403, [error |-> e])

server_error(e) == Response(500, [error |-> e])

NotFoundText ==
  <<"404 Not Found: The requested URL was not found on the server.">>

ForbiddenText ==
  <<"403 Forbidden: You don't have the permission to access the requested resource.">>

InternalErrorText ==
  <<"500 Internal Server Error: The server encountered an internal error and was unable to complete your request.">>

\* the framework's dispatch of an HTTP error to the handler registered for it
handle_http_exception(code) ==
  CASE code = 404 -> not_found(NotFoundText)
    [] code = 403 -> forbidden(ForbiddenText)
    [] code = 500 -> server_error(InternalErrorText)

\* lines 27-32
handle_options == Response(200, [status |-> <<"ok">>])

\* lines 213-225
health_check_response(probe) ==
  IF probe.running
  THEN Response(200, [status |-> <<"ok">>,
                      message |-> <<"Flask server is running">>,
                      ollama_status |-> <<"running">>])
  ELSE Response(200, [status |-> <<"warning">>,
                      message |-> <<"Flask server is running, but Ollama has issues">>,
                      ollama_status |-> <<"error">>,
                      ollama_error |-> probe.error])

\* a slip the status endpoint could make: health_check's `200` on both arms
ollama_status_response_Always200(probe) ==
  IF probe.running
  THEN Response(200, [status |-> <<"ok">>,
                      message |-> <<"Ollama is running and Llama 3.2 1B model is available">>])
  ELSE Response(200, [status |-> <<"error">>, message |-> probe.error])

\* lines 234-243
ollama_status_response(probe) ==
  IF probe.running
  THEN Response(200, [status |-> <<"ok">>,
                      message |-> <<"Ollama is running and Llama 3.2 1B model is available">>])
  ELSE Response(503, [status |-> <<"error">>, message |-> probe.error])

\* a slip the generation handlers could make: ollama_status's `message` key
unavailable_response_MessageKey(probe) ==
  Response(503, [status |-> <<"error">>, message |-> probe.error])

\* lines 93 and 142
unavailable_response(probe) == Response(503, [error |-> probe.error])

\* lines 85 and 129
no_content_response == Response(400, [error |-> NoContentMsg])

\* a slip the generation handlers could make: no test for the signature
generation_failed_Always500(prefix, error_msg) ==
  Response(500, [error |-> <<prefix>> \o error_msg])

\* lines 112-119 and 196-203, with the endpoint's prefix
generation_failed(prefix, error_msg) ==
  IF Contains(error_msg, ConnectionRefused)
  THEN Response(503, [error |-> CannotConnectMsg])
  ELSE Response(500, [error |-> <<prefix>> \o error_msg])

ErrorPrefix(endpoint) ==
  IF endpoint = "summarize-email" THEN "Error summarizing email: "
  ELSE "Error generating reply: "

\* lines 107-110 and 183-194
generation_done(endpoint, obj, response) ==
  IF endpoint = "summarize-email"
  THEN Response(200, [summary |-> Strip(response)])
  ELSE Response(200, [reply |-> reply_of(obj, response)])

\* the field each generation endpoint requires
RequiredKey(endpoint) ==
  IF endpoint = "summarize-email" THEN "content" ELSE "emailContent"

(***************************************************************************)
(* The generation call (Ollama(model=...).invoke(prompt), lines 96-106 and *)
(* 145-182) against the backend as it is when the call is made: a backend  *)
(* that refuses connections or fails makes the call raise; one that        *)
(* answers returns a text or raises an upstream error.                     *)
(***************************************************************************)
RefusedText ==
  <<"HTTPConnectionPool(host='localhost', port=11434): Max retries exceeded (Caused by NewConnectionError: [Errno 111] ",
    "Connection refused", ")">>

\* the same failure as Windows words it: no "Connection refused" in the text
WinRefusedText ==
  <<"[WinError 10061] No connection could be made because the target machine actively refused it">>

ModelNotFoundText ==
  <<"Ollama call failed with status code 404. Maybe your model is not found and you should pull the model.">>

TimeoutText == <<"HTTPConnectionPool(host='localhost', port=11434): Read timed out.">>

Returned(text) == [ok |-> TRUE, text |-> text]

Raised(text) == [ok |-> FALSE, text |-> text]

GenOutcomes(b, texts) ==
  CASE b.kind = "refused" -> {Raised(RefusedText), Raised(WinRefusedText)}
    [] b.kind = "fault"   -> {Raised(b.text)}
    [] OTHER -> {Returned(t) : t \in texts} \cup {Raised(ModelNotFoundText)}

(***************************************************************************)
(* The server.  Each of the NReq slots handles one request at a time; a    *)
(* handler gives up control where it blocks on the backend: in the probe   *)
(* (pc = "probe") and in the generation call (pc = "generate").            *)
(***************************************************************************)
Endpoints ==
  {"summarize-email", "generate-reply", "root", "ollama-status", "options", "unknown"}

GenerationEndpoints == {"summarize-email", "generate-reply"}

\* a slot between requests.  probes, calls and resp record what the request
\* in the slot has done: the probes it made (the backend each saw and what
\* check_ollama returned), the generation calls it issued, the responses it
\* returned; response is the outcome of its generation call.
Idle ==
  [pc |-> "idle", endpoint |-> "", data |-> Null, running |-> FALSE,
   error |-> None, response |-> Raised(<<>>),
   probes |-> <<>>, calls |-> <<>>, resp |-> <<>>]

\* lines 88/96 and 137/145-179: what the generation call is made with
generation_call(endpoint, obj) ==
  IF endpoint = "summarize-email"
  THEN [model |-> Get(obj, "model", RequiredModel)]
  ELSE [model |-> Get(obj, "model", RequiredModel),
        sender_name |-> sender_name_of(reply_fields(obj).recipient_name,
                                       reply_fields(obj).sender),
        user_name |-> user_name_of(reply_fields(obj).user_email)]

\* line 75: the module-level names, bound once when the module is loaded
Startup == [running |-> ollama_running, error |-> ollama_error]

\* a slip the handlers could make: the module-level result decides
handler_view_Startup(own, startup) == startup

\* lines 91, 140, 211, 232: the assignment binds the handler's own locals,
\* which shadow the module-level names
handler_view(own, startup) == own

InitWith(backends) ==
  /\ backend \in backends
  /\ ollama_running = check_ollama(backend).running
  /\ ollama_error = check_ollama(backend).error
  /\ req = [r \in Req |-> Idle]

\* the handler up to its first blocking call, or to its response
Receive(r, endpoint, data) ==
  /\ req[r].pc = "idle"
  /\ LET start == [Idle EXCEPT !.endpoint = endpoint, !.data = data]
         done(response) == [start EXCEPT !.pc = "done", !.resp = <<response>>]
         probing == [start EXCEPT !.pc = "probe"]
     IN  req' = [req EXCEPT ![r] =
           CASE endpoint = "options" -> done(handle_options)
             [] endpoint = "unknown" -> done(handle_http_exception(404))
             [] endpoint \in {"root", "ollama-status"} -> probing
             [] OTHER ->
                CASE validate(data, RequiredKey(endpoint)) = "reject" ->
                       done(no_content_response)
                  [] validate(data, RequiredKey(endpoint)) = "raise" ->
                       done(handle_http_exception(500))
                  [] OTHER -> probing]
  /\ UNCHANGED <<backend, ollama_running, ollama_error>>

\* check_ollama returns in the handler: the health endpoints answer, the
\* generation endpoints answer 503 or go on to the generation call
ProbeReturn(r) ==
  /\ req[r].pc = "probe"
  /\ LET own == check_ollama(backend)
         seen == handler_view(own, Startup)
         q == [req[r] EXCEPT !.running = seen.running, !.error = seen.error,
                             !.probes = Append(@, [backend |-> backend, result |-> own])]
         done(response) == [q EXCEPT !.pc = "done", !.resp = Append(@, response)]
     IN  req' = [req EXCEPT ![r] =
           CASE q.endpoint = "root" -> done(health_check_response(seen))
             [] q.endpoint = "ollama-status" -> done(ollama_status_response(seen))
             [] OTHER ->
                IF ~q.running THEN done(unavailable_response(seen))
                ELSE [q EXCEPT !.pc = "generate",
                               !.calls = Append(@, generation_call(q.endpoint, q.data.obj))]]
  /\ UNCHANGED <<backend, ollama_running, ollama_error>>

\* the generation call returns or raises in the handler
GenReturn(r, texts) ==
  /\ req[r].pc = "generate"
  /\ \E out \in GenOutcomes(backend, texts) :
       req' = [req EXCEPT ![r].pc = "done",
                          ![r].response = out,
                          ![r].resp = Append(@,
                             IF out.ok
                             THEN generation_done(req[r].endpoint, req[r].data.obj, out.text)
                             ELSE generation_failed(ErrorPrefix(req[r].endpoint), out.text))]
  /\ UNCHANGED <<backend, ollama_running, ollama_error>>

\* the response is sent and the slot takes the next request
Finish(r) ==
  /\ req[r].pc = "done"
  /\ req' = [req EXCEPT ![r] = Idle]
  /\ UNCHANGED <<backend, ollama_running, ollama_error>>

\* the backend changes under the server
BackendChange(backends) ==
  /\ backend' \in backends \ {backend}
  /\ UNCHANGED <<ollama_running, ollama_error, req>>

(***************************************************************************)
(* Inputs of the concurrent specification: a few bodies per endpoint, one  *)
(* generated text, one backend of each kind.                               *)
(***************************************************************************)
Mail == <<"S","a","l","e">>

OtherModel == <<"p","h","i","3">>

Ann == <<"A","n","n">>

BobAddress == <<"b","o","b","@","x",".","c","o","m">>

SummarizeBodies == {Null, Number(5), Object([content |-> Mail])}

ReplyBodies ==
  {Object([emailSubject |-> Mail]),
   Object([emailContent |-> Mail, model |-> OtherModel,
           recipientName |-> Ann, userEmail |-> BobAddress])}

Bodies(endpoint) ==
  CASE endpoint = "summarize-email" -> SummarizeBodies
    [] endpoint = "generate-reply"  -> ReplyBodies
    [] OTHER -> {Null}

\* a generated text, with the padding the handlers strip
Texts == {<<" ","T","h","a","n","k","s",".","\n">>}

JsonErrorText == <<"Expecting value: line 1 column 1 (char 0)">>

Healthy == Answer(200, Listing(<<RequiredModel>>))

NoModel == Answer(200, Listing(<<<<"m","i","s","t","r","a","l",":","7","b">>>>))

BadStatus == Answer(500, Unparsable(JsonErrorText))

Backends == {Healthy, NoModel, BadStatus, Refused}

Init == InitWith(Backends)

Next ==
  \/ \E r \in Req, endpoint \in Endpoints :
       \E data \in Bodies(endpoint) : Receive(r, endpoint, data)
  \/ \E r \in Req : ProbeReturn(r)
  \/ \E r \in Req : GenReturn(r, Texts)
  \/ \E r \in Req : Finish(r)
  \/ BackendChange(Backends)

Spec == Init /\ [][Next]_vars

(***************************************************************************)
(* One request at a time, every endpoint, against a wider range of request *)
(* bodies and of backends: listings that hold the model under another      *)
(* spelling or beside others, that lack it, that are empty or malformed,   *)
(* and answers that are not 200.                                           *)
(***************************************************************************)
\* 'LLaMA3.2:1B-Instruct'
TaggedUpper ==
  <<"L","L","a","M","A","3",".","2",":","1","B","-","I","n","s","t","r","u",
    "c","t">>

\* 'llama3.2:3b'
NearMiss ==
  <<"l","l","a","m","a","3",".","2",":","3","b">>

\* 'mistral:7b'
Mistral ==
  <<"m","i","s","t","r","a","l",":","7","b">>

WideBackends ==
  {Healthy, NoModel, BadStatus, Refused,
   Answer(200, Listing(<<TaggedUpper>>)),
   Answer(200, Listing(<<Mistral, RequiredModel>>)),
   Answer(200, Listing(<<NearMiss>>)),
   Answer(200, Listing(<<>>)),
   Answer(200, Json(<<>>)),
   Answer(200, Json([models |-> <<[size |-> <<"1">>]>>])),
   Answer(200, Unparsable(JsonErrorText)),
   Answer(503, Listing(<<RequiredModel>>)),
   Fault(TimeoutText)}

WideSummarizeBodies ==
  {Null, Number(0), Number(5), Object(<<>>), Object([model |-> OtherModel]),
   Object([content |-> Mail]), Object([content |-> Mail, model |-> OtherModel])}

WideReplyBodies ==
  {Null, Number(0), Number(5), Object(<<>>),
   Object([emailSubject |-> Mail, sender |-> Ann]),
   Object([emailContent |-> Mail]),
   Object([emailContent |-> Mail, model |-> OtherModel])}

WideBodies(endpoint) ==
  CASE endpoint = "summarize-email" -> WideSummarizeBodies
    [] endpoint = "generate-reply"  -> WideReplyBodies
    [] OTHER -> {Null}

InitOne == InitWith(WideBackends)

NextOne ==
  \/ \E endpoint \in Endpoints :
       \E data \in WideBodies(endpoint) : Receive(1, endpoint, data)
  \/ ProbeReturn(1)
  \/ GenReturn(1, Texts)
  \/ Finish(1)
  \/ BackendChange(WideBackends)

SpecOne == InitOne /\ [][NextOne]_vars

(***************************************************************************)
(* POST /generate-reply against a healthy backend, over the request fields *)
(* the greeting and the sign-off are made from and over generated texts.   *)
(***************************************************************************)
\* 'Best Buy'
BestBuy ==
  <<"B","e","s","t"," ","B","u","y">>

\* 'Jane Doe <jane@x.com>'
JaneSender ==
  <<"J","a","n","e"," ","D","o","e"," ","<","j","a","n","e","@","x",".","c",
    "o","m",">">>

\* 'Best Buy <deals@bb.com>'
BestBuySender ==
  <<"B","e","s","t"," ","B","u","y"," ","<","d","e","a","l","s","@","b","b",
    ".","c","o","m",">">>

\* ' <a@b.c>'
BareSender ==
  <<" ","<","a","@","b",".","c",">">>

\* 'jane@x.com'
AddressSender ==
  <<"j","a","n","e","@","x",".","c","o","m">>

\* 'bob'
NoAtAddress ==
  <<"b","o","b">>

\* '@x.com'
NoLocalAddress ==
  <<"@","x",".","c","o","m">>

\* 'jOHN.d@x.com'
MixedAddress ==
  <<"j","O","H","N",".","d","@","x",".","c","o","m">>

\* ' Thanks for the note.\n'
PlainText ==
  <<" ","T","h","a","n","k","s"," ","f","o","r"," ","t","h","e"," ","n","o",
    "t","e",".","\n">>

\* 'Hi Ann,\n\nNoted.\n\nBest regards,\nBob'
FullText ==
  <<"H","i"," ","A","n","n",",","\n","\n","N","o","t","e","d",".","\n","\n",
    "B","e","s","t"," ","r","e","g","a","r","d","s",",","\n","B","o","b">>

\* 'Hello, noted.'
HelloText ==
  <<"H","e","l","l","o",","," ","n","o","t","e","d",".">>

\* 'Dear Ann, noted. Sincerely, Bob'
DearText ==
  <<"D","e","a","r"," ","A","n","n",","," ","n","o","t","e","d","."," ","S",
    "i","n","c","e","r","e","l","y",","," ","B","o","b">>

\* 'hi there'
LowerHiText ==
  <<"h","i"," ","t","h","e","r","e">>

\* 'History repeats.'
HistoryText ==
  <<"H","i","s","t","o","r","y"," ","r","e","p","e","a","t","s",".">>

\* 'Noted. All the BEST'
UpperBestText ==
  <<"N","o","t","e","d","."," ","A","l","l"," ","t","h","e"," ","B","E","S",
    "T">>

\* ' \n'
BlankText ==
  <<" ","\n">>

RecipientNames == {<<>>, Ann, BestBuy}

Senders == {<<>>, JaneSender, BestBuySender, BareSender, AddressSender}

UserEmails == {<<>>, BobAddress, NoAtAddress, NoLocalAddress, MixedAddress}

\* each optional field is absent or has one of its values
ReplyObjects ==
  {[emailContent |-> Mail] @@ a @@ b @@ c :
     a \in {<<>>} \cup {"recipientName" :> v : v \in RecipientNames},
     b \in {<<>>} \cup {"sender" :> v : v \in Senders},
     c \in {<<>>} \cup {"userEmail" :> v : v \in UserEmails}}

ReplyTexts ==
  {PlainText, FullText, HelloText, DearText, LowerHiText, HistoryText,
   UpperBestText, BlankText}

InitReply == InitWith({Healthy})

NextReply ==
  \/ \E obj \in ReplyObjects : Receive(1, "generate-reply", Object(obj))
  \/ ProbeReturn(1)
  \/ GenReturn(1, ReplyTexts)
  \/ Finish(1)

SpecReply == InitReply /\ [][NextReply]_vars

(***************************************************************************)
(* Properties.                                                             *)
(***************************************************************************)
ErrorStatuses == {400, 403, 404, 500, 503}

\* the request in slot r has been answered
Answered(r) == req[r].pc = "done" /\ Len(req[r].resp) = 1

\* the body of a generation request is empty (null, {}) or an object that
\* lacks the endpoint's required key
LacksRequiredField(q) ==
  /\ q.endpoint \in GenerationEndpoints
  /\ \/ q.data.kind = "null"
     \/ /\ q.data.kind = "object"
        /\ (IF q.endpoint = "summarize-email" THEN "content" ELSE "emailContent")
             \notin DOMAIN q.data.obj

NamesRequiredModel(name) ==
  \E i \in 1..Len(name) :
    /\ i + Len(RequiredModel) - 1 <= Len(name)
    /\ \A k \in 1..Len(RequiredModel) :
         LowerChar(name[i + k - 1]) = RequiredModel[k]

\* the model-listing call answers 200 with a listing
AnswersListing(b) == b.kind = "http" /\ b.status = 200 /\ b.body.parsable

\* some model of the listing is the required one
ListsRequiredModel(b) ==
  /\ "models" \in DOMAIN b.body.json
  /\ \E i \in 1..Len(b.body.json.models) :
       /\ "name" \in DOMAIN b.body.json.models[i]
       /\ NamesRequiredModel(b.body.json.models[i].name)

\* C2: a valid generation request whose probe finds HTTP 200 and no model
\* named like llama3.2:1b is answered 503 with an error that names
\* llama3.2:1b, and never 200
C2_ModelAbsentIs503 ==
  \A r \in Req :
    LET q == req[r]
    IN  (/\ q.endpoint \in GenerationEndpoints
         /\ Len(q.probes) = 1
         /\ AnswersListing(q.probes[1].backend)
         /\ ~ListsRequiredModel(q.probes[1].backend)) =>
          /\ Answered(r)
          /\ q.calls = <<>>
          /\ q.resp[1].status = 503
          /\ "error" \in DOMAIN q.resp[1].body
          /\ \E i \in 1..Len(q.resp[1].body.error) :
               q.resp[1].body.error[i] = "llama3.2:1b"

C2_Witness ==
  \E r \in Req :
    /\ Answered(r)
    /\ req[r].endpoint = "summarize-email"
    /\ req[r].data.kind = "object"
    /\ "model" \in DOMAIN req[r].data.obj
    /\ Len(req[r].probes) = 1
    /\ req[r].probes[1].backend = Answer(200, Listing(<<NearMiss>>))
    /\ req[r].resp[1].status = 503

\* C6: GET / is answered 200 whatever the probe found; GET /ollama-status
\* is answered 503 exactly when its own probe reports the backend unhealthy,
\* and 200 otherwise
C6_HealthEndpoints ==
  \A r \in Req :
    LET q == req[r]
    IN  /\ (q.endpoint \in {"root", "ollama-status"} /\ Len(q.probes) = 1) =>
             Answered(r)
        /\ (Answered(r) /\ q.endpoint = "root") => q.resp[1].status = 200
        /\ (Answered(r) /\ q.endpoint = "ollama-status") =>
             /\ q.resp[1].status \in {200, 503}
             /\ q.resp[1].status = 503 <=> ~q.probes[1].result.running

C6_Witness ==
  \E r \in Req :
    /\ Answered(r)
    /\ req[r].endpoint = "ollama-status"
    /\ req[r].probes[1].backend.kind = "fault"
    /\ req[r].resp[1].status = 503

C6_WitnessRoot ==
  \E r \in Req :
    /\ Answered(r)
    /\ req[r].endpoint = "root"
    /\ req[r].probes[1].backend = Refused
    /\ req[r].resp[1].status = 200

C8_ProbeClassifies ==
  \A r \in Req :
    \A i \in 1..Len(req[r].probes) :
      LET b == req[r].probes[i].backend
          res == req[r].probes[i].result
      IN  /\ res.running <=> (AnswersListing(b) /\ ListsRequiredModel(b))
          /\ res.running => res.error = <<>>
          /\ (AnswersListing(b) /\ ~ListsRequiredModel(b)) =>
               res.error = ModelMissingMsg
          /\ (b.kind = "http" /\ b.status # 200) =>
               res.error = <<"Ollama returned status code ", ToString(b.status)>>
          /\ b.kind = "refused" => res.error = CannotConnectMsg
          /\ b.kind = "fault" =>
               res.error = <<"Error checking Ollama: ">> \o b.text
          /\ (b.kind = "http" /\ b.status = 200 /\ ~b.body.parsable) =>
               res.error = <<"Error checking Ollama: ">> \o b.body.text

C8_Witness ==
  \E r \in Req :
    /\ Len(req[r].probes) = 1
    /\ req[r].probes[1].backend = Answer(200, Listing(<<TaggedUpper>>))
    /\ req[r].probes[1].result.running

\* C9: a generation request issues its generation call only after a probe of
\* its own returned healthy, whatever the process-start probe and the other
\* requests' probes returned; a request whose probe is unhealthy issues none
C9_OwnProbeDecides ==
  \A r \in Req :
    LET q == req[r]
    IN  /\ q.calls # <<>> =>
             /\ Len(q.calls) = 1
             /\ q.endpoint \in GenerationEndpoints
             /\ Len(q.probes) = 1
             /\ q.probes[1].result.running
        /\ (q.probes # <<>> /\ ~q.probes[Len(q.probes)].result.running) =>
             q.calls = <<>>
        /\ q.pc = "generate" => q.calls # <<>>

C9_Witness ==
  \E r1, r2 \in Req :
    /\ req[r1].pc = "generate"
    /\ ~ollama_running
    /\ Answered(r2)
    /\ req[r2].endpoint \in GenerationEndpoints
    /\ req[r2].probes # <<>>
    /\ ~req[r2].probes[1].result.running
    /\ backend = Refused

\* C10: when the probe was healthy and the generation call raises, the
\* request ends with one JSON error response, never 200: 503 and the
\* cannot-connect message if the exception text holds "Connection refused",
\* otherwise 500 with an error that embeds the exception text
C10_GenerationFailure ==
  \A r \in Req :
    LET q == req[r]
    IN  (q.pc = "done" /\ q.calls # <<>> /\ ~q.response.ok) =>
          /\ Len(q.resp) = 1
          /\ q.resp[1].status # 200
          /\ "error" \in DOMAIN q.resp[1].body
          /\ IF \E i \in 1..Len(q.response.text) :
                  q.response.text[i] = "Connection refused"
             THEN /\ q.resp[1].status = 503
                  /\ q.resp[1].body.error = CannotConnectMsg
             ELSE /\ q.resp[1].status = 500
                  /\ \E i \in 1..Len(q.resp[1].body.error) :
                       SubSeq(q.resp[1].body.error, i,
                              i + Len(q.response.text) - 1) = q.response.text

C10_Witness ==
  \E r1, r2 \in Req :
    /\ req[r1].pc = "done" /\ req[r1].calls # <<>>
    /\ req[r1].endpoint = "generate-reply"
    /\ req[r1].response = Raised(RefusedText)
    /\ req[r1].resp[1].status = 503
    /\ req[r2].pc = "done" /\ req[r2].calls # <<>>
    /\ req[r2].endpoint = "summarize-email"
    /\ req[r2].response = Raised(WinRefusedText)
    /\ req[r2].resp[1].status = 500

\* a POST /generate-reply answered 200 with a reply
Replied(r) ==
  /\ Answered(r)
  /\ req[r].endpoint = "generate-reply"
  /\ req[r].response.ok
  /\ req[r].resp[1].status = 200
  /\ "reply" \in DOMAIN req[r].resp[1].body

\* the text holds `regards`, `sincerely` or `best`, letter case aside
HoldsClosingToken(text) ==
  \E token \in {Regards, Sincerely, Best} :
    \E i \in 1..Len(text) :
      /\ i + Len(token) - 1 <= Len(text)
      /\ \A k \in 1..Len(token) : LowerChar(text[i + k - 1]) = token[k]

\* C3: when the generated text holds none of regards, sincerely, best
\* (letter case aside), the reply ends with "Best regards," and, on the next
\* line, the signer name, for every recipientName, sender and userEmail
C3_SignOffAppended ==
  \A r \in Req :
    (Replied(r) /\ ~HoldsClosingToken(req[r].response.text)) =>
      EndsWith(req[r].resp[1].body.reply,
               <<"B","e","s","t"," ","r","e","g","a","r","d","s",",","\n">>
                 \o req[r].calls[1].user_name)

\* the name C4 describes: recipientName when non-empty, otherwise the
\* trimmed text of sender before its first `<`
GreetingName(obj) ==
  LET named == "recipientName" \in DOMAIN obj /\ obj.recipientName # <<>>
      from == IF "sender" \in DOMAIN obj THEN obj.sender ELSE <<>>
      cut == IF \E i \in 1..Len(from) : from[i] = "<"
             THEN SubSeq(from, 1,
                    (CHOOSE i \in 1..Len(from) :
                       from[i] = "<" /\ \A j \in 1..(i - 1) : from[j] # "<") - 1)
             ELSE from
  IN  IF named THEN obj.recipientName ELSE Strip(cut)

\* C4: a generated text that, trimmed, does not start with Hi, Hello or Dear
\* is returned behind the line "Hi <name>," or, with no name, "Hello,"; one
\* that starts with one of the three is returned with nothing before it
C4_GreetingPrepended ==
  \A r \in Req :
    Replied(r) =>
      LET text == Strip(req[r].response.text)
          reply == req[r].resp[1].body.reply
          name == GreetingName(req[r].data.obj)
          line == IF name # <<>> THEN <<"H","i"," ">> \o name \o <<",">>
                  ELSE <<"H","e","l","l","o",",">>
      IN  /\ IF \E token \in {Hi, Hello, Dear} : StartsWith(text, token)
             THEN StartsWith(reply, text)
             ELSE StartsWith(reply, line \o <<"\n","\n">> \o text)
          /\ (/\ req[r].data.obj = [emailContent |-> Mail, sender |-> JaneSender]
              /\ req[r].response.text = PlainText) =>
               StartsWith(reply, <<"H","i"," ","J","a","n","e"," ","D","o","e",",","\n">>)

C4_Witness ==
  \E r \in Req :
    /\ Replied(r)
    /\ req[r].data.obj = [emailContent |-> Mail, sender |-> JaneSender]
    /\ req[r].response.text = PlainText
    /\ StartsWith(req[r].resp[1].body.reply,
                  <<"H","i"," ","J","a","n","e"," ","D","o","e",",","\n","\n","T">>)

\* userEmail gives a local part: it is present and has text before an `@`
HasLocalPart(obj) ==
  /\ "userEmail" \in DOMAIN obj
  /\ \E i \in 2..Len(obj.userEmail) : obj.userEmail[i] = "@"
  /\ obj.userEmail[1] # "@"

\* C5: the signer name is the text of userEmail before its first `@`,
\* capitalized, and it is Me whenever userEmail gives no local part: absent,
\* empty, without `@`, or with nothing before the `@`
C5_SignerName ==
  \A r \in Req :
    (req[r].endpoint = "generate-reply" /\ req[r].calls # <<>>) =>
      LET obj == req[r].data.obj
          signer == req[r].calls[1].user_name
      IN  /\ HasLocalPart(obj) =>
               signer = Capitalize(SplitFirst(obj.userEmail, "@"))
          /\ ~HasLocalPart(obj) => signer = <<"M","e">>
          /\ ("userEmail" \in DOMAIN obj /\ obj.userEmail = BobAddress) =>
               signer = <<"B","o","b">>

====
